---- MODULE Spec2Model ----
(***************************************************************************)
(* LibraryManager of src/main.cpp: three ordered collections (Books,       *)
(* Readers, Loans), the six mutation operations, Load/Save against three   *)
(* JSON documents, and the menu loop of main() that drives them.           *)
(*                                                                         *)
(* Six specifications:                                                     *)
(*   Spec        any sequence of AddBook, RemoveBook, AddReader,           *)
(*               RemoveReader, IssueLoan, ReturnBook on an empty manager;  *)
(*   SpecSave    the same, followed by Save and Load;                      *)
(*   SpecApi     AddBook, RemoveBook, AddReader, RemoveReader and          *)
(*               NextReaderId with any argument of their C++ types;        *)
(*   SpecSearch  a catalogue filled and searched through the menu;         *)
(*   SpecLoad    Load at start-up, on every combination of small           *)
(*               documents;                                                *)
(*   SpecMain    the program main(): Load at start-up, then menu commands  *)
(*               until "Save & Exit", "Exit without save" or an uncaught   *)
(*               std::stoi exception.                                      *)
(***************************************************************************)
EXTENDS Integers, Sequences, FiniteSets, TLC

VARIABLES
    Books,        \* LibraryManager::Books   (std::vector<Book>)
    Readers,      \* LibraryManager::Readers (std::vector<Reader>)
    Loans,        \* LibraryManager::Loans   (std::vector<Loan>)
    booksFile,    \* content of books.json
    readersFile,  \* content of readers.json
    loansFile,    \* content of loans.json
    clock,        \* the time the next now_iso() call reads
    pc,           \* position of main(): "start", "menu", "done", "crashed";
                  \* of a caller of Save and Load: "menu", "saved", "loaded"
    last,         \* the operation executed last, its arguments and its result
    removedIds    \* history: reader Ids removed by menu command 4 so far

vars == <<Books, Readers, Loans, booksFile, readersFile, loansFile, clock, pc, last, removedIds>>

(***************************************************************************)
(* Bounds of the model.                                                    *)
(***************************************************************************)
MaxReaderId == 2    \* largest reader Id that is handed out or typed
MaxTime == 4        \* last reading of the clock: no now_iso() call after it
MaxFileLen == 2     \* longest JSON array found in a file at start-up

\* What the user types.
ISBNs == {"111", "222"}
ReaderIds == 1..MaxReaderId
Titles == {"Dune"}
Authors == {"Herbert"}
Names == {"Ann"}
Emails == {"ann@example.org"}

\* The search terms typed at menu command 7.
Terms == {"", "HERB", "e", "\\u043C\\u044B"}

\* The range of int.
IntMax == 2147483647
IntMin == -IntMax - 1

\* What a caller of the public methods may pass: a reader Id that is negative,
\* zero, positive or the largest int, and a Book whose IsAvailable was cleared.
ApiIds == {-1, 0, 1, IntMax}

(***************************************************************************)
(* Data model.  std::optional<std::string> is a sequence of length 0       *)
(* (std::nullopt) or 1.  A timestamp string produced by now_iso() is       *)
(* represented by the time_t value it formats; the format is injective.    *)
(* Successive now_iso() calls of a session read 1, 2, ...; the timestamps  *)
(* found in files at start-up are 0.                                       *)
(***************************************************************************)
NullOpt == <<>>

Some(x) == <<x>>

Book(title, author, isbn) ==
    [Title |-> title, Author |-> author, ISBN |-> isbn, IsAvailable |-> TRUE]

Reader(id, name, email) == [Id |-> id, Name |-> name, Email |-> email]

MarkAsLoaned(b) == [b EXCEPT !.IsAvailable = FALSE]

MarkAsAvailable(b) == [b EXCEPT !.IsAvailable = TRUE]

Min(S) == CHOOSE x \in S : \A y \in S : x <= y

\* std::find_if over the positions S that satisfy the predicate: the first of
\* them, 0 for end().
FindIf(S) == IF S = {} THEN 0 ELSE Min(S)

\* std::vector::erase(it): the vector without position i.
Erase(s, i) == [j \in 1..(Len(s) - 1) |-> IF j < i THEN s[j] ELSE s[j + 1]]

FindBook(books, isbn) == FindIf({i \in 1..Len(books) : books[i].ISBN = isbn})

FindReader(readers, id) == FindIf({i \in 1..Len(readers) : readers[i].Id = id})

(***************************************************************************)
(* The manager object ("this") and the result of a mutation operation:     *)
(* the bool it returns and the manager it leaves behind.                   *)
(***************************************************************************)
Manager == [Books |-> Books, Readers |-> Readers, Loans |-> Loans]

Result(ok, m) == [ok |-> ok, mgr |-> m]

IsActive(l) == l.ReturnDate = NullOpt

\* AddBook that overwrites the book of a present ISBN.
AddBookUpsert(m, b) ==
    LET it == FindBook(m.Books, b.ISBN) IN
    IF it # 0 THEN Result(TRUE, [m EXCEPT !.Books[it] = b])
    ELSE Result(TRUE, [m EXCEPT !.Books = Append(@, b)])

AddBook(m, b) ==
    IF FindBook(m.Books, b.ISBN) # 0 THEN Result(FALSE, m)
    ELSE Result(TRUE, [m EXCEPT !.Books = Append(@, b)])

\* RemoveBook without the availability check.
RemoveBookLoaned(m, isbn) ==
    LET it == FindBook(m.Books, isbn) IN
    IF it = 0 THEN Result(FALSE, m)
    ELSE Result(TRUE, [m EXCEPT !.Books = Erase(@, it)])

\* RemoveBook that also drops the loan records of the ISBN.
RemoveBookPurge(m, isbn) ==
    LET it == FindBook(m.Books, isbn)
        Other(l) == l.BookISBN # isbn
    IN  IF it = 0 THEN Result(FALSE, m)
        ELSE IF ~m.Books[it].IsAvailable THEN Result(FALSE, m)
        ELSE Result(TRUE, [m EXCEPT !.Books = Erase(@, it), !.Loans = SelectSeq(@, Other)])

RemoveBook(m, isbn) ==
    LET it == FindBook(m.Books, isbn) IN
    IF it = 0 THEN Result(FALSE, m)
    ELSE IF ~m.Books[it].IsAvailable THEN Result(FALSE, m)
    ELSE Result(TRUE, [m EXCEPT !.Books = Erase(@, it)])

RECURSIVE MaxIdFrom(_, _, _)
\* The loop of NextReaderId from position i on, with maxId so far.
MaxIdFrom(readers, i, maxId) ==
    IF i > Len(readers) THEN maxId
    ELSE MaxIdFrom(readers, i + 1, IF readers[i].Id > maxId THEN readers[i].Id ELSE maxId)

\* The value returned when maxId + 1 is an int.
NextReaderId(m) == MaxIdFrom(m.Readers, 1, 0) + 1

\* maxId + 1 with maxId = INT_MAX is a signed overflow, which is undefined: the
\* build either wraps to INT_MIN or traps.
NextReaderIdOverflows(m) == MaxIdFrom(m.Readers, 1, 0) = IntMax

NextReaderIdResults(m) == IF NextReaderIdOverflows(m) THEN {IntMin} ELSE {NextReaderId(m)}

\* AddReader without the duplicate check.
AddReaderNoCheck(m, r) == Result(TRUE, [m EXCEPT !.Readers = Append(@, r)])

AddReader(m, r) ==
    IF \E i \in 1..Len(m.Readers) : m.Readers[i].Id = r.Id THEN Result(FALSE, m)
    ELSE Result(TRUE, [m EXCEPT !.Readers = Append(@, r)])

RECURSIVE EraseAllFrom(_, _, _)
\* The loop of RemoveReader erasing every loan of reader id, returned ones too.
EraseAllFrom(loans, lit, id) ==
    IF lit > Len(loans) THEN loans
    ELSE IF loans[lit].ReaderId = id
         THEN EraseAllFrom(Erase(loans, lit), lit, id)
         ELSE EraseAllFrom(loans, lit + 1, id)

RECURSIVE EraseActiveFrom(_, _, _)
\* The loop of RemoveReader from position lit on: an active loan of reader id is
\* erased, any other loan is stepped over.
EraseActiveFrom(loans, lit, id) ==
    IF lit > Len(loans) THEN loans
    ELSE IF loans[lit].ReaderId = id /\ IsActive(loans[lit])
         THEN EraseActiveFrom(Erase(loans, lit), lit, id)
         ELSE EraseActiveFrom(loans, lit + 1, id)

\* RemoveReader that leaves the loans of the reader in place.
RemoveReaderKeepLoans(m, id) ==
    LET it == FindReader(m.Readers, id) IN
    IF it = 0 THEN Result(FALSE, m)
    ELSE Result(TRUE, [m EXCEPT !.Readers = Erase(@, it)])

RemoveReader(m, id) ==
    LET it == FindReader(m.Readers, id) IN
    IF it = 0 THEN Result(FALSE, m)
    ELSE Result(TRUE, [m EXCEPT !.Loans = EraseActiveFrom(@, 1, id),
                                !.Readers = Erase(@, it)])

\* IssueLoan without the availability gate.
IssueLoanNoGate(m, isbn, readerId, now) ==
    LET b == FindBook(m.Books, isbn)
        ln == [BookISBN |-> isbn, ReaderId |-> readerId,
               LoanDate |-> now, ReturnDate |-> NullOpt]
    IN  IF b = 0 THEN Result(FALSE, m)
        ELSE IF FindReader(m.Readers, readerId) = 0 THEN Result(FALSE, m)
        ELSE Result(TRUE, [m EXCEPT !.Loans = Append(@, ln),
                                    !.Books[b] = MarkAsLoaned(@)])

\* IssueLoan that does not mark the book.
IssueLoanNoMark(m, isbn, readerId, now) ==
    LET b == FindBook(m.Books, isbn)
        ln == [BookISBN |-> isbn, ReaderId |-> readerId,
               LoanDate |-> now, ReturnDate |-> NullOpt]
    IN  IF b = 0 THEN Result(FALSE, m)
        ELSE IF ~m.Books[b].IsAvailable THEN Result(FALSE, m)
        ELSE IF FindReader(m.Readers, readerId) = 0 THEN Result(FALSE, m)
        ELSE Result(TRUE, [m EXCEPT !.Loans = Append(@, ln)])

\* IssueLoan marking the book before it looks the reader up.
IssueLoanEarlyMark(m, isbn, readerId, now) ==
    LET b == FindBook(m.Books, isbn)
        ln == [BookISBN |-> isbn, ReaderId |-> readerId,
               LoanDate |-> now, ReturnDate |-> NullOpt]
        marked == [m EXCEPT !.Books[b] = MarkAsLoaned(@)]
    IN  IF b = 0 THEN Result(FALSE, m)
        ELSE IF ~m.Books[b].IsAvailable THEN Result(FALSE, m)
        ELSE IF FindReader(m.Readers, readerId) = 0 THEN Result(FALSE, marked)
        ELSE Result(TRUE, [marked EXCEPT !.Loans = Append(@, ln)])

IssueLoan(m, isbn, readerId, now) ==
    LET b == FindBook(m.Books, isbn)
        ln == [BookISBN |-> isbn, ReaderId |-> readerId,
               LoanDate |-> now, ReturnDate |-> NullOpt]
    IN  IF b = 0 THEN Result(FALSE, m)
        ELSE IF ~m.Books[b].IsAvailable THEN Result(FALSE, m)
        ELSE IF FindReader(m.Readers, readerId) = 0 THEN Result(FALSE, m)
        ELSE Result(TRUE, [m EXCEPT !.Loans = Append(@, ln),
                                    !.Books[b] = MarkAsLoaned(@)])

\* ReturnBook matching a loan whatever its ReturnDate.
ReturnBookAnyLoan(m, isbn, readerId, now) ==
    LET Match(l) == l.BookISBN = isbn /\ l.ReaderId = readerId
        it == FindIf({i \in 1..Len(m.Loans) : Match(m.Loans[i])})
        b == FindBook(m.Books, isbn)
        closed == [m EXCEPT !.Loans[it].ReturnDate = Some(now)]
    IN  IF it = 0 THEN Result(FALSE, m)
        ELSE IF b # 0 THEN Result(TRUE, [closed EXCEPT !.Books[b] = MarkAsAvailable(@)])
        ELSE Result(TRUE, closed)

\* ReturnBook matching the active loan of the ISBN whoever borrowed it.
ReturnBookAnyReader(m, isbn, readerId, now) ==
    LET Match(l) == l.BookISBN = isbn /\ IsActive(l)
        it == FindIf({i \in 1..Len(m.Loans) : Match(m.Loans[i])})
        b == FindBook(m.Books, isbn)
        closed == [m EXCEPT !.Loans[it].ReturnDate = Some(now)]
    IN  IF it = 0 THEN Result(FALSE, m)
        ELSE IF b # 0 THEN Result(TRUE, [closed EXCEPT !.Books[b] = MarkAsAvailable(@)])
        ELSE Result(TRUE, closed)

\* ReturnBook that does not mark the book.
ReturnBookNoMark(m, isbn, readerId, now) ==
    LET Match(l) == l.BookISBN = isbn /\ l.ReaderId = readerId /\ IsActive(l)
        it == FindIf({i \in 1..Len(m.Loans) : Match(m.Loans[i])})
    IN  IF it = 0 THEN Result(FALSE, m)
        ELSE Result(TRUE, [m EXCEPT !.Loans[it].ReturnDate = Some(now)])

ReturnBook(m, isbn, readerId, now) ==
    LET Match(l) == l.BookISBN = isbn /\ l.ReaderId = readerId /\ IsActive(l)
        it == FindIf({i \in 1..Len(m.Loans) : Match(m.Loans[i])})
        b == FindBook(m.Books, isbn)
        closed == [m EXCEPT !.Loans[it].ReturnDate = Some(now)]
    IN  IF it = 0 THEN Result(FALSE, m)
        ELSE IF b # 0 THEN Result(TRUE, [closed EXCEPT !.Books[b] = MarkAsAvailable(@)])
        ELSE Result(TRUE, closed)

\* The bytes of a std::string of the model (UTF-8, as a terminal sends them).
\* "\\u041C\\u044B" and "\\u043C\\u044B" stand for the Cyrillic words U+041C U+044B
\* and U+043C U+044B, which differ in the case of their first letter.
Bytes(s) ==
    CASE s = "" -> <<>>
      [] s = "Dune" -> <<68, 117, 110, 101>>
      [] s = "Herbert" -> <<72, 101, 114, 98, 101, 114, 116>>
      [] s = "Emma" -> <<69, 109, 109, 97>>
      [] s = "AUSTEN" -> <<65, 85, 83, 84, 69, 78>>
      [] s = "Zamyatin" -> <<90, 97, 109, 121, 97, 116, 105, 110>>
      [] s = "\\u041C\\u044B" -> <<208, 156, 209, 139>>
      [] s = "\\u043C\\u044B" -> <<208, 188, 209, 139>>
      [] s = "Herbal" -> <<72, 101, 114, 98, 97, 108>>
      [] s = "Culpeper" -> <<67, 117, 108, 112, 101, 112, 101, 114>>
      [] s = "HERB" -> <<72, 69, 82, 66>>
      [] s = "e" -> <<101>>

\* std::tolower on an unsigned char in the "C" locale (main never calls
\* setlocale): 'A'..'Z' map to 'a'..'z', every other byte to itself.
ToLower(c) == IF c \in 65..90 THEN c + 32 ELSE c

Lower(s) == [i \in 1..Len(s) |-> ToLower(s[i])]

\* std::string::find(q): the first position (from 1) at which q occurs in s,
\* 0 for npos.  The empty q occurs at the start of every s.
Find(s, q) == FindIf({p \in 1..(Len(s) - Len(q) + 1) : SubSeq(s, p, p + Len(q) - 1) = q})

SearchBooks(m, term) ==
    IF Bytes(term) = <<>> THEN m.Books
    ELSE LET q == Lower(Bytes(term))
             Match(b) == \/ Find(Lower(Bytes(b.Title)), q) # 0
                         \/ Find(Lower(Bytes(b.Author)), q) # 0
         IN  SelectSeq(m.Books, Match)

AvailableBooks(m) == LET Avail(b) == b.IsAvailable IN SelectSeq(m.Books, Avail)

ActiveLoans(m) == SelectSeq(m.Loans, IsActive)

(***************************************************************************)
(* Persistence.  A JSON object is a record keyed by its member names; a    *)
(* string, number or bool member is its value, except ReturnDate, whose    *)
(* JSON value is JNull or JString(stamp).  An array element that is not an *)
(* object is NotObject.  A file is absent, malformed (operator>> throws a  *)
(* parse error) or holds a JSON array.                                     *)
(***************************************************************************)
JNull == <<"null">>

JString(x) == <<"string", x>>

NotObject == [notObject |-> TRUE]

IsObject(j) == "notObject" \notin DOMAIN j

\* json::value(key, default)
Value(j, key, default) == IF key \in DOMAIN j THEN j[key] ELSE default

Absent == [state |-> "absent", doc |-> <<>>]

Malformed == [state |-> "malformed", doc |-> <<>>]

JsonFile(doc) == [state |-> "json", doc |-> doc]

BookToJson(b) ==
    [Title |-> b.Title, Author |-> b.Author, ISBN |-> b.ISBN, IsAvailable |-> b.IsAvailable]

BookFromJson(j) ==
    [Title |-> Value(j, "Title", ""), Author |-> Value(j, "Author", ""),
     ISBN |-> Value(j, "ISBN", ""), IsAvailable |-> Value(j, "IsAvailable", TRUE)]

ReaderToJson(r) == [Id |-> r.Id, Name |-> r.Name, Email |-> r.Email]

ReaderFromJson(j) ==
    [Id |-> Value(j, "Id", 0), Name |-> Value(j, "Name", ""), Email |-> Value(j, "Email", "")]

LoanToJson(l) ==
    [BookISBN |-> l.BookISBN, ReaderId |-> l.ReaderId, LoanDate |-> l.LoanDate,
     ReturnDate |-> IF l.ReturnDate # NullOpt THEN JString(l.ReturnDate[1]) ELSE JNull]

\* Loan::from_json that never reads ReturnDate.
LoanFromJsonActive(j) ==
    [BookISBN |-> Value(j, "BookISBN", ""), ReaderId |-> Value(j, "ReaderId", 0),
     LoanDate |-> Value(j, "LoanDate", ""), ReturnDate |-> NullOpt]

\* The documents read here carry the key ReturnDate in every loan object.
LoanFromJson(j) ==
    [BookISBN |-> Value(j, "BookISBN", ""), ReaderId |-> Value(j, "ReaderId", 0),
     LoanDate |-> Value(j, "LoanDate", ""),
     ReturnDate |-> IF j.ReturnDate # JNull THEN Some(j.ReturnDate[2]) ELSE NullOpt]

\* One "ifstream f(file); if (f) { f >> j; for (x : j) push_back(from_json(x)); }"
\* block of Load: the number of elements converted and pushed, and whether an
\* exception left the block.
ReadFile(file) ==
    LET bad == {i \in 1..Len(file.doc) : ~IsObject(file.doc[i])} IN
    IF file.state = "absent" THEN [n |-> 0, threw |-> FALSE]
    ELSE IF file.state = "malformed" THEN [n |-> 0, threw |-> TRUE]
    ELSE [n |-> IF bad = {} THEN Len(file.doc) ELSE Min(bad) - 1, threw |-> bad # {}]

\* Load: the collections are cleared, the three files are read in turn, and the
\* first exception ends the try block.
Load(bf, rf, lf) ==
    LET b == ReadFile(bf)
        r == ReadFile(rf)
        l == ReadFile(lf)
        books == [i \in 1..b.n |-> BookFromJson(bf.doc[i])]
        readers == [i \in 1..r.n |-> ReaderFromJson(rf.doc[i])]
        loans == [i \in 1..l.n |-> LoanFromJson(lf.doc[i])]
    IN  IF b.threw THEN [Books |-> books, Readers |-> <<>>, Loans |-> <<>>]
        ELSE IF r.threw THEN [Books |-> books, Readers |-> readers, Loans |-> <<>>]
        ELSE [Books |-> books, Readers |-> readers, Loans |-> loans]

\* Save: the three documents written (the destinations are writable).
Save(m) ==
    [books |-> JsonFile([i \in 1..Len(m.Books) |-> BookToJson(m.Books[i])]),
     readers |-> JsonFile([i \in 1..Len(m.Readers) |-> ReaderToJson(m.Readers[i])]),
     loans |-> JsonFile([i \in 1..Len(m.Loans) |-> LoanToJson(m.Loans[i])])]

(***************************************************************************)
(* Steps.  Done(op, isbn, id, r) installs the manager an operation leaves  *)
(* and records the call in last: a successful call with its arguments, a   *)
(* failed one by its name.                                                 *)
(***************************************************************************)
Call(op, isbn, id, ok) == [op |-> op, isbn |-> isbn, id |-> id, ok |-> ok]

Done(op, isbn, id, r) ==
    /\ Books' = r.mgr.Books
    /\ Readers' = r.mgr.Readers
    /\ Loans' = r.mgr.Loans
    /\ last' = IF r.ok THEN Call(op, isbn, id, TRUE) ELSE Call(op, "", 0, FALSE)

\* Menu command 1: a Book is default-constructed (IsAvailable = true) and its
\* Title, Author and ISBN are read.
Cmd1 ==
    /\ pc = "menu"
    /\ \E title \in Titles, author \in Authors, isbn \in ISBNs :
          Done("AddBook", isbn, 0, AddBook(Manager, Book(title, author, isbn)))
    /\ UNCHANGED <<booksFile, readersFile, loansFile, clock, pc, removedIds>>

\* Menu command 2.
Cmd2 ==
    /\ pc = "menu"
    /\ \E isbn \in ISBNs : Done("RemoveBook", isbn, 0, RemoveBook(Manager, isbn))
    /\ UNCHANGED <<booksFile, readersFile, loansFile, clock, pc, removedIds>>

\* Menu command 3: the Id is NextReaderId(); the result of AddReader is not read.
Cmd3 ==
    /\ pc = "menu"
    /\ NextReaderId(Manager) <= MaxReaderId
    /\ \E name \in Names, email \in Emails :
          LET id == NextReaderId(Manager) IN
          Done("AddReader", "", id, AddReader(Manager, Reader(id, name, email)))
    /\ UNCHANGED <<booksFile, readersFile, loansFile, clock, pc, removedIds>>

\* Menu command 4 with a numeric Id.
Cmd4 ==
    /\ pc = "menu"
    /\ \E id \in ReaderIds :
          LET r == RemoveReader(Manager, id) IN
          /\ Done("RemoveReader", "", id, r)
          /\ removedIds' = IF r.ok THEN removedIds \cup {id} ELSE removedIds
    /\ UNCHANGED <<booksFile, readersFile, loansFile, clock, pc>>

\* Menu command 5 with a numeric ReaderId.  now_iso() is called on success only.
Cmd5 ==
    /\ pc = "menu"
    /\ clock <= MaxTime
    /\ \E rid \in ReaderIds, isbn \in ISBNs :
          LET r == IssueLoan(Manager, isbn, rid, clock) IN
          /\ Done("IssueLoan", isbn, rid, r)
          /\ clock' = IF r.ok THEN clock + 1 ELSE clock
    /\ UNCHANGED <<booksFile, readersFile, loansFile, pc, removedIds>>

\* Menu command 6 with a numeric ReaderId.  now_iso() is called on success only.
Cmd6 ==
    /\ pc = "menu"
    /\ clock <= MaxTime
    /\ \E rid \in ReaderIds, isbn \in ISBNs :
          LET r == ReturnBook(Manager, isbn, rid, clock) IN
          /\ Done("ReturnBook", isbn, rid, r)
          /\ clock' = IF r.ok THEN clock + 1 ELSE clock
    /\ UNCHANGED <<booksFile, readersFile, loansFile, pc, removedIds>>

\* Books typed at menu command 1 by a user who fills a catalogue.
Catalogue ==
    {Book("Dune", "Herbert", "111"), Book("Emma", "AUSTEN", "222"),
     Book("\\u041C\\u044B", "Zamyatin", "333"), Book("Herbal", "Culpeper", "444")}

\* Menu command 1 with the Title, Author and ISBN of a catalogue book.
Cmd1Catalogue ==
    /\ pc = "menu"
    /\ \E b \in Catalogue : Done("AddBook", b.ISBN, 0, AddBook(Manager, b))
    /\ UNCHANGED <<booksFile, readersFile, loansFile, clock, pc, removedIds>>

\* Menu command 7 with any term: SearchBooks is a const method, its result is
\* printed and nothing is kept of it.
Cmd7 ==
    /\ pc = "menu"
    /\ last' = Call("SearchBooks", "", 0, TRUE)
    /\ UNCHANGED <<Books, Readers, Loans, booksFile, readersFile, loansFile, clock, pc, removedIds>>

\* Menu command 8: AvailableBooks and ActiveLoans are const methods, their
\* results are printed and nothing is kept of them.
Cmd8 ==
    /\ pc = "menu"
    /\ last' = Call("Reports", "", 0, TRUE)
    /\ UNCHANGED <<Books, Readers, Loans, booksFile, readersFile, loansFile, clock, pc, removedIds>>

\* The manager and the history of the session end with the process.
ProcessEnds ==
    /\ Books' = <<>>
    /\ Readers' = <<>>
    /\ Loans' = <<>>
    /\ removedIds' = {}
    /\ UNCHANGED clock

\* Menu commands 4, 5 and 6 with text std::stoi rejects: the exception leaves main().
StoiThrows ==
    /\ pc = "menu"
    /\ pc' = "crashed"
    /\ last' = Call("stoi", "", 0, FALSE)
    /\ ProcessEnds
    /\ UNCHANGED <<booksFile, readersFile, loansFile>>

\* Menu command 9.
Cmd9 ==
    /\ pc = "menu"
    /\ booksFile' = Save(Manager).books
    /\ readersFile' = Save(Manager).readers
    /\ loansFile' = Save(Manager).loans
    /\ pc' = "done"
    /\ last' = Call("Save", "", 0, TRUE)
    /\ ProcessEnds

\* Menu command 0 writing the files as menu command 9 does.
Cmd0Saves ==
    /\ pc = "menu"
    /\ booksFile' = Save(Manager).books
    /\ readersFile' = Save(Manager).readers
    /\ loansFile' = Save(Manager).loans
    /\ pc' = "done"
    /\ last' = Call("Exit", "", 0, TRUE)
    /\ ProcessEnds

\* Menu command 0.
Cmd0 ==
    /\ pc = "menu"
    /\ pc' = "done"
    /\ last' = Call("Exit", "", 0, TRUE)
    /\ ProcessEnds
    /\ UNCHANGED <<booksFile, readersFile, loansFile>>

\* Start-up of main().
Startup ==
    /\ pc = "start"
    /\ Books' = Load(booksFile, readersFile, loansFile).Books
    /\ Readers' = Load(booksFile, readersFile, loansFile).Readers
    /\ Loans' = Load(booksFile, readersFile, loansFile).Loans
    /\ pc' = "menu"
    /\ last' = Call("Load", "", 0, TRUE)
    /\ UNCHANGED <<booksFile, readersFile, loansFile, clock, removedIds>>

\* AddReader called with any reader record.
CallAddReader ==
    /\ pc = "menu"
    /\ \E id \in ReaderIds, name \in Names, email \in Emails :
          Done("AddReader", "", id, AddReader(Manager, Reader(id, name, email)))
    /\ UNCHANGED <<booksFile, readersFile, loansFile, clock, pc, removedIds>>

\* RemoveReader called with any Id.
CallRemoveReader ==
    /\ pc = "menu"
    /\ \E id \in ReaderIds : Done("RemoveReader", "", id, RemoveReader(Manager, id))
    /\ UNCHANGED <<booksFile, readersFile, loansFile, clock, pc, removedIds>>

\* The Book objects a caller may pass to AddBook.
BookArgs ==
    {[Book(title, author, isbn) EXCEPT !.IsAvailable = avail] :
        title \in Titles, author \in Authors, isbn \in ISBNs, avail \in BOOLEAN}

\* AddBook called with any Book object.
ApiAddBook ==
    /\ pc = "menu"
    /\ \E b \in BookArgs : Done("AddBook", b.ISBN, 0, AddBook(Manager, b))
    /\ UNCHANGED <<booksFile, readersFile, loansFile, clock, pc, removedIds>>

\* AddReader called with any reader record.
ApiAddReader ==
    /\ pc = "menu"
    /\ \E id \in ApiIds, name \in Names, email \in Emails :
          Done("AddReader", "", id, AddReader(Manager, Reader(id, name, email)))
    /\ UNCHANGED <<booksFile, readersFile, loansFile, clock, pc, removedIds>>

\* RemoveReader called with any Id.
ApiRemoveReader ==
    /\ pc = "menu"
    /\ \E id \in ApiIds : Done("RemoveReader", "", id, RemoveReader(Manager, id))
    /\ UNCHANGED <<booksFile, readersFile, loansFile, clock, pc, removedIds>>

\* NextReaderId called: a const method, its result is recorded in last.id.
ApiNextReaderId ==
    /\ pc = "menu"
    /\ \E v \in NextReaderIdResults(Manager) : last' = Call("NextReaderId", "", v, TRUE)
    /\ UNCHANGED <<Books, Readers, Loans, booksFile, readersFile, loansFile, clock, pc, removedIds>>

\* NextReaderId called in a build that traps on signed overflow (-ftrapv).
ApiNextReaderIdTraps ==
    /\ pc = "menu"
    /\ NextReaderIdOverflows(Manager)
    /\ pc' = "crashed"
    /\ last' = Call("NextReaderId", "", 0, FALSE)
    /\ ProcessEnds
    /\ UNCHANGED <<booksFile, readersFile, loansFile>>

\* Save called on the manager; the three destinations are written.
CallSave ==
    /\ pc = "menu"
    /\ booksFile' = Save(Manager).books
    /\ readersFile' = Save(Manager).readers
    /\ loansFile' = Save(Manager).loans
    /\ pc' = "saved"
    /\ last' = Call("Save", "", 0, TRUE)
    /\ UNCHANGED <<Books, Readers, Loans, clock, removedIds>>

\* Load called on the manager that was saved, from the same three destinations.
CallLoad ==
    /\ pc = "saved"
    /\ Books' = Load(booksFile, readersFile, loansFile).Books
    /\ Readers' = Load(booksFile, readersFile, loansFile).Readers
    /\ Loans' = Load(booksFile, readersFile, loansFile).Loans
    /\ pc' = "loaded"
    /\ last' = Call("Load", "", 0, TRUE)
    /\ UNCHANGED <<booksFile, readersFile, loansFile, clock, removedIds>>

(***************************************************************************)
(* Spec: the six mutation operations on an empty manager.                  *)
(***************************************************************************)
Init ==
    /\ Books = <<>>
    /\ Readers = <<>>
    /\ Loans = <<>>
    /\ booksFile = Absent
    /\ readersFile = Absent
    /\ loansFile = Absent
    /\ clock = 1
    /\ pc = "menu"
    /\ last = Call("none", "", 0, TRUE)
    /\ removedIds = {}

Next ==
    \/ Cmd1
    \/ Cmd2
    \/ CallAddReader
    \/ CallRemoveReader
    \/ Cmd5
    \/ Cmd6

Spec == Init /\ [][Next]_vars

(***************************************************************************)
(* SpecSave: the six mutation operations on an empty manager, then Save    *)
(* and Load against the same three destinations.                           *)
(***************************************************************************)
NextSave ==
    \/ Next
    \/ CallSave
    \/ CallLoad

SpecSave == Init /\ [][NextSave]_vars

(***************************************************************************)
(* SpecSearch: a session that fills and searches a catalogue whose texts   *)
(* differ in letter case, in ASCII and beyond it.                          *)
(***************************************************************************)
NextSearch ==
    \/ Cmd1Catalogue
    \/ Cmd2
    \/ Cmd7

SpecSearch == Init /\ [][NextSearch]_vars

(***************************************************************************)
(* SpecApi: AddBook, RemoveBook, AddReader, RemoveReader and NextReaderId  *)
(* called on an empty manager with any argument a C++ caller may pass.     *)
(* No loan is issued here: Books and Readers take every value the loan     *)
(* operations could leave, since AddBook accepts either IsAvailable.       *)
(***************************************************************************)
NextApi ==
    \/ ApiAddBook
    \/ Cmd2
    \/ ApiAddReader
    \/ ApiRemoveReader
    \/ ApiNextReaderId
    \/ ApiNextReaderIdTraps

SpecApi == Init /\ [][NextApi]_vars

(***************************************************************************)
(* Documents found at start-up.                                            *)
(***************************************************************************)
RECURSIVE SeqsUpTo(_, _)
\* The sequences over S of length at most n.
SeqsUpTo(S, n) ==
    IF n = 0 THEN {<<>>}
    ELSE LET shorter == SeqsUpTo(S, n - 1)
         IN  shorter \cup {Append(q, x) : q \in shorter, x \in S}

Files(objects) ==
    {Absent, Malformed} \cup {JsonFile(doc) : doc \in SeqsUpTo(objects, MaxFileLen)}

BookObjects ==
    {BookToJson(MarkAsLoaned(Book("Dune", "Herbert", "111"))),
     BookToJson(Book("Dune", "Herbert", "222")), NotObject}

ReaderObjects == {ReaderToJson(Reader(1, "Ann", "ann@example.org")), NotObject}

LoanObjects ==
    {LoanToJson([BookISBN |-> "111", ReaderId |-> 1, LoanDate |-> 0, ReturnDate |-> NullOpt]),
     LoanToJson([BookISBN |-> "222", ReaderId |-> 1, LoanDate |-> 0, ReturnDate |-> Some(0)]),
     NotObject}

(***************************************************************************)
(* SpecLoad: start-up of main() on every combination of these documents.   *)
(***************************************************************************)
InitLoad ==
    /\ Books = <<>>
    /\ Readers = <<>>
    /\ Loans = <<>>
    /\ booksFile \in Files(BookObjects)
    /\ readersFile \in Files(ReaderObjects)
    /\ loansFile \in Files(LoanObjects)
    /\ clock = 1
    /\ pc = "start"
    /\ last = Call("none", "", 0, TRUE)
    /\ removedIds = {}

NextLoad == Startup

SpecLoad == InitLoad /\ [][NextLoad]_vars

(***************************************************************************)
(* SpecMain: the program.  The files at start-up are absent, malformed or  *)
(* as a previous session saved them.                                       *)
(***************************************************************************)
SavedSession ==
    Save([Books |-> <<Book("Dune", "Herbert", "333"),
                      MarkAsLoaned(Book("Dune", "Herbert", "111"))>>,
          Readers |-> <<Reader(1, "Ann", "ann@example.org")>>,
          Loans |-> <<[BookISBN |-> "111", ReaderId |-> 1, LoanDate |-> 0,
                       ReturnDate |-> NullOpt]>>])

StartFiles ==
    {<<Absent, Absent, Absent>>,
     <<SavedSession.books, SavedSession.readers, SavedSession.loans>>,
     <<SavedSession.books, Malformed, SavedSession.loans>>}

InitMain ==
    /\ Books = <<>>
    /\ Readers = <<>>
    /\ Loans = <<>>
    /\ \E f \in StartFiles : booksFile = f[1] /\ readersFile = f[2] /\ loansFile = f[3]
    /\ clock = 1
    /\ pc = "start"
    /\ last = Call("none", "", 0, TRUE)
    /\ removedIds = {}

NextMain ==
    \/ Startup
    \/ Cmd1
    \/ Cmd2
    \/ Cmd3
    \/ Cmd4
    \/ Cmd5
    \/ Cmd6
    \/ Cmd7
    \/ Cmd8
    \/ StoiThrows
    \/ Cmd9
    \/ Cmd0

SpecMain == InitMain /\ [][NextMain]_vars

(***************************************************************************)
(* Properties.                                                             *)
(***************************************************************************)
\* The positions of the loans of this ISBN, and of its active loans.
LoansOf(loans, isbn) == {i \in 1..Len(loans) : loans[i].BookISBN = isbn}

ActiveLoansOf(loans, isbn) == {i \in LoansOf(loans, isbn) : IsActive(loans[i])}

\* C1: in every state reached by the six mutation operations from an empty
\* manager, a book is unavailable exactly when Loans holds an active loan
\* (ReturnDate absent) with its ISBN.
C1_AvailableIffNoActiveLoan ==
    \A i \in 1..Len(Books) :
        (~Books[i].IsAvailable) <=> (ActiveLoansOf(Loans, Books[i].ISBN) # {})

\* C2: in every state reached by the six mutation operations from an empty
\* manager, no ISBN has more than one active loan.
C2_AtMostOneActiveLoan ==
    \A isbn \in ISBNs : Cardinality(ActiveLoansOf(Loans, isbn)) <= 1

\* C2 witness: a loan was just issued for an ISBN that already has a returned
\* loan; the ISBN has two loan records, one of them active.
C2_Witness ==
    /\ last.op = "IssueLoan" /\ last.ok
    /\ Cardinality(LoansOf(Loans, last.isbn)) = 2
    /\ Cardinality(ActiveLoansOf(Loans, last.isbn)) = 1

\* C3: in a session of the program that starts without readers, where every
\* reader is added with Id = NextReaderId(), an Id removed by RemoveReader is
\* never handed out again: NextReaderId() does not return it and no reader in
\* Readers carries it.
C3_IdsNeverReused ==
    (pc = "menu" /\ readersFile.state # "json") =>
        \A k \in removedIds :
            /\ NextReaderId(Manager) # k
            /\ \A i \in 1..Len(Readers) : Readers[i].Id # k

\* The documents of a file that parses: the empty array for an absent file.
DocOf(file) == IF file.state = "json" THEN file.doc ELSE <<>>

AllObjects(file) == \A i \in 1..Len(DocOf(file)) : IsObject(DocOf(file)[i])

\* C4: after Load, if any of the three files failed to parse, Books, Readers
\* and Loans are all empty; if none failed (each file is absent or an array of
\* objects), an absent file leaves only its own collection empty and every
\* other collection holds the entries of its file.
C4_LoadAllOrNothing ==
    (last.op = "Load") =>
        /\ (Malformed \in {booksFile, readersFile, loansFile}) =>
               (Books = <<>> /\ Readers = <<>> /\ Loans = <<>>)
        /\ (/\ Malformed \notin {booksFile, readersFile, loansFile}
            /\ AllObjects(booksFile) /\ AllObjects(readersFile) /\ AllObjects(loansFile)) =>
               /\ Len(Books) = Len(DocOf(booksFile))
               /\ Len(Readers) = Len(DocOf(readersFile))
               /\ Len(Loans) = Len(DocOf(loansFile))

\* C5: a mutation operation that reports failure leaves Books, Readers and
\* Loans exactly as they were before the call.
C5_FailureIsNoOp ==
    [][(~last'.ok) => (Books' = Books /\ Readers' = Readers /\ Loans' = Loans)]_vars

\* C5 witness: a call has just failed on a manager that holds a book, a reader
\* and a loan.
C5_Witness ==
    /\ ~last.ok
    /\ last.op \in {"AddBook", "RemoveBook", "AddReader", "RemoveReader", "IssueLoan", "ReturnBook"}
    /\ Books # <<>> /\ Readers # <<>> /\ Loans # <<>>

HasReader(id) == \E i \in 1..Len(Readers) : Readers[i].Id = id

HasAvailableBook(isbn) == \E i \in 1..Len(Books) : Books[i].ISBN = isbn /\ Books[i].IsAvailable

\* C6: RemoveReader(id) fails if no reader has that Id; otherwise it removes
\* that reader and exactly the active loans of that reader, keeping the
\* returned loans of that reader, the loans of other readers in their order,
\* the other readers and the books.  (0 is an Id no reader carries.)
C6_RemoveReader ==
    \A id \in ReaderIds \cup {0} :
        LET r == RemoveReader(Manager, id)
            OtherReader(x) == x.Id # id
            Kept(l) == ~(l.ReaderId = id /\ IsActive(l))
        IN  /\ r.ok <=> HasReader(id)
            /\ r.ok => /\ r.mgr.Readers = SelectSeq(Readers, OtherReader)
                       /\ r.mgr.Loans = SelectSeq(Loans, Kept)
                       /\ r.mgr.Books = Books

\* C6 witness: RemoveReader has just removed a reader whose returned loan is
\* still in Loans next to a loan of another reader, and whose active loan is
\* gone (its book is unavailable with no active loan left).
C6_Witness ==
    /\ last.op = "RemoveReader" /\ last.ok
    /\ ~HasReader(last.id) /\ Readers # <<>>
    /\ \E i \in 1..Len(Loans) : Loans[i].ReaderId = last.id /\ ~IsActive(Loans[i])
    /\ \E i \in 1..Len(Loans) : Loans[i].ReaderId # last.id
    /\ \E b \in 1..Len(Books) :
          ~Books[b].IsAvailable /\ ActiveLoansOf(Loans, Books[b].ISBN) = {}

\* C7: IssueLoan(isbn, readerId) succeeds exactly when the book exists and is
\* available and the reader exists; on success it appends one active loan
\* (isbn, readerId) stamped with the current time at the end of Loans, marks
\* that book unavailable and changes nothing else.  ("999" is an ISBN no book
\* carries, 0 an Id no reader carries.)
C7_IssueLoan ==
    \A isbn \in ISBNs \cup {"999"}, rid \in ReaderIds \cup {0} :
        LET r == IssueLoan(Manager, isbn, rid, clock)
            ln == [BookISBN |-> isbn, ReaderId |-> rid,
                   LoanDate |-> clock, ReturnDate |-> NullOpt]
        IN  /\ r.ok <=> (HasAvailableBook(isbn) /\ HasReader(rid))
            /\ r.ok => /\ r.mgr.Loans = Append(Loans, ln)
                       /\ r.mgr.Readers = Readers
                       /\ Len(r.mgr.Books) = Len(Books)
                       /\ \A i \in 1..Len(Books) :
                             r.mgr.Books[i] = IF Books[i].ISBN = isbn
                                              THEN [Books[i] EXCEPT !.IsAvailable = FALSE]
                                              ELSE Books[i]

\* C7 witness: IssueLoan has just succeeded; its loan is the last of several
\* and another book is still available.
C7_Witness ==
    /\ last.op = "IssueLoan" /\ last.ok
    /\ Len(Loans) >= 2
    /\ Loans[Len(Loans)].BookISBN = last.isbn /\ IsActive(Loans[Len(Loans)])
    /\ ~HasAvailableBook(last.isbn)
    /\ \E i \in 1..Len(Books) : Books[i].ISBN # last.isbn /\ Books[i].IsAvailable

\* C8: RemoveBook(isbn) succeeds exactly when a book with that ISBN exists and
\* is available; on success exactly that entry leaves Books, the remaining
\* books keep their order, and Readers and Loans (loan history of that ISBN
\* included) are as before.  ("999" is an ISBN no book carries.)
C8_RemoveBook ==
    (pc = "menu") =>
        \A isbn \in ISBNs \cup {"333", "999"} :
            LET r == RemoveBook(Manager, isbn)
                OtherBook(b) == b.ISBN # isbn
            IN  /\ r.ok <=> HasAvailableBook(isbn)
                /\ r.ok => /\ r.mgr.Books = SelectSeq(Books, OtherBook)
                           /\ Len(r.mgr.Books) = Len(Books) - 1
                           /\ r.mgr.Readers = Readers
                           /\ r.mgr.Loans = Loans

\* C8 witness: RemoveBook has just removed the middle one of three books; the
\* other two are in their order and the loan history of the removed ISBN is
\* still in Loans.
C8_Witness ==
    /\ last = Call("RemoveBook", "111", 0, TRUE)
    /\ Len(Books) = 2 /\ Books[1].ISBN = "333" /\ Books[2].ISBN = "222"
    /\ LoansOf(Loans, "111") # {}

\* The manager a ReturnBook by the reader and for the book of the last call
\* would leave, called now.
ReturnAfterIssue == ReturnBook(Manager, last.isbn, last.id, clock)

\* What C9 and its original statement share: right after a successful
\* IssueLoan(isbn, readerId), ReturnBook(isbn, readerId) succeeds and the
\* book is available again.
ReturnAfterIssueSucceeds ==
    /\ ReturnAfterIssue.ok
    /\ \E i \in 1..Len(ReturnAfterIssue.mgr.Books) :
          /\ ReturnAfterIssue.mgr.Books[i].ISBN = last.isbn
          /\ ReturnAfterIssue.mgr.Books[i].IsAvailable

\* C9 as stated: in any state in which IssueLoan(isbn, readerId) has just
\* succeeded, an immediately following ReturnBook(isbn, readerId) succeeds,
\* makes the book available and leaves exactly one loan record for that ISBN,
\* with ReturnDate set.
C9_ExactlyOneRecord ==
    (last.op = "IssueLoan" /\ last.ok) =>
        /\ ReturnAfterIssueSucceeds
        /\ Cardinality(LoansOf(ReturnAfterIssue.mgr.Loans, last.isbn)) = 1
        /\ \A i \in LoansOf(ReturnAfterIssue.mgr.Loans, last.isbn) :
              ~IsActive(ReturnAfterIssue.mgr.Loans[i])

\* C9 amended: in any state in which IssueLoan(isbn, readerId) has just
\* succeeded, an immediately following ReturnBook(isbn, readerId) succeeds,
\* makes the book available, sets ReturnDate on exactly the loan record that
\* IssueLoan created (the last of Loans) and leaves every loan record of that
\* ISBN, of which there may be several, with ReturnDate set.
C9_IssueThenReturn ==
    (last.op = "IssueLoan" /\ last.ok) =>
        /\ ReturnAfterIssueSucceeds
        /\ ReturnAfterIssue.mgr.Loans = [Loans EXCEPT ![Len(Loans)].ReturnDate = Some(clock)]
        /\ Loans[Len(Loans)].BookISBN = last.isbn /\ Loans[Len(Loans)].ReaderId = last.id
        /\ \A i \in LoansOf(ReturnAfterIssue.mgr.Loans, last.isbn) :
              ~IsActive(ReturnAfterIssue.mgr.Loans[i])

\* C9 witness: ReturnBook has just closed the loan issued by the now_iso()
\* call before its own, for an ISBN that has an earlier loan record too; the
\* book is available and no loan of the ISBN is active.
C9_Witness ==
    /\ last.op = "ReturnBook" /\ last.ok
    /\ Loans # <<>>
    /\ Loans[Len(Loans)].BookISBN = last.isbn /\ Loans[Len(Loans)].ReaderId = last.id
    /\ Loans[Len(Loans)].ReturnDate = Some(Loans[Len(Loans)].LoanDate + 1)
    /\ Cardinality(LoansOf(Loans, last.isbn)) >= 2
    /\ ActiveLoansOf(Loans, last.isbn) = {}
    /\ HasAvailableBook(last.isbn)

\* A book with this ISBN is in Books and unavailable.
OnLoan(isbn) == \E i \in 1..Len(Books) : Books[i].ISBN = isbn /\ ~Books[i].IsAvailable

\* The readers of the active loans of this ISBN.
Borrowers(isbn) == {Loans[i].ReaderId : i \in ActiveLoansOf(Loans, isbn)}

\* C10: a successful IssueLoan(isbn, r) leaves the book unavailable with r as
\* its only borrower; while the book is unavailable RemoveBook(isbn) fails, no
\* other borrower appears, and only a successful ReturnBook(isbn, r) by a
\* borrower r makes it available or takes it out of Books; right after that
\* ReturnBook, RemoveBook(isbn) succeeds.
C10_LoanedBookStays ==
    [][\A isbn \in ISBNs :
          /\ (\E r \in ReaderIds : last' = Call("IssueLoan", isbn, r, TRUE)) =>
                 (OnLoan(isbn)' /\ Borrowers(isbn)' = {last'.id})
          /\ OnLoan(isbn) => ~RemoveBook(Manager, isbn).ok
          /\ (OnLoan(isbn) /\ OnLoan(isbn)') => (Borrowers(isbn)' \subseteq Borrowers(isbn))
          /\ (OnLoan(isbn) /\ ~OnLoan(isbn)') =>
                 (\E r \in Borrowers(isbn) : last' = Call("ReturnBook", isbn, r, TRUE))
          /\ (\E r \in ReaderIds : last' = Call("ReturnBook", isbn, r, TRUE)) =>
                 RemoveBook(Manager, isbn)'.ok
      ]_vars

\* C10 witness: ReturnBook has just succeeded and RemoveBook of that ISBN
\* would succeed, while another book is still on loan and cannot be removed.
C10_Witness ==
    /\ last.op = "ReturnBook" /\ last.ok
    /\ RemoveBook(Manager, last.isbn).ok
    /\ \E isbn \in ISBNs : OnLoan(isbn) /\ Borrowers(isbn) # {} /\ ~RemoveBook(Manager, isbn).ok

\* C11: a successful AddBook(b) leaves the book of b at the end of Books with
\* IsAvailable = true, whatever the IsAvailable field of the argument b.
C11_AddBookAppendsAvailable ==
    (last.op = "AddBook" /\ last.ok) =>
        /\ Books # <<>>
        /\ Books[Len(Books)].ISBN = last.isbn
        /\ Books[Len(Books)].IsAvailable

\* C12: in every state reached by the six mutation operations from an empty
\* manager, no two books have the same ISBN and no two readers the same Id,
\* and AddBook and AddReader fail for a key that is present.
C12_KeysUnique ==
    /\ \A i, j \in 1..Len(Books) : (Books[i].ISBN = Books[j].ISBN) => (i = j)
    /\ \A i, j \in 1..Len(Readers) : (Readers[i].Id = Readers[j].Id) => (i = j)
    /\ \A i \in 1..Len(Books) :
          ~AddBook(Manager, Book("Dune", "Herbert", Books[i].ISBN)).ok
    /\ \A i \in 1..Len(Readers) :
          ~AddReader(Manager, Reader(Readers[i].Id, "Ann", "ann@example.org")).ok

\* C12 witness: AddReader has just failed on a manager that holds a reader
\* for every Id and a book for every ISBN a caller passes.
C12_Witness ==
    /\ last.op = "AddReader" /\ ~last.ok
    /\ {Readers[i].Id : i \in 1..Len(Readers)} = ReaderIds
    /\ {Books[i].ISBN : i \in 1..Len(Books)} = ISBNs

\* C13: a call of NextReaderId() returns a value greater than the Id of every
\* reader in Readers, whatever Ids AddReader accepted, returns 1 when Readers
\* is empty, and leaves Books, Readers and Loans as they were.
C13_NextReaderIdAboveAll ==
    [][(last'.op = "NextReaderId" /\ last'.ok) =>
          /\ Books' = Books /\ Readers' = Readers /\ Loans' = Loans
          /\ \A i \in 1..Len(Readers) : last'.id > Readers[i].Id
          /\ (Readers = <<>>) => (last'.id = 1)
      ]_vars

\* C14: Save leaves the manager as it is, and Load from the three documents
\* that Save has just written leaves Books, Readers and Loans with the same
\* entries, in the same order and with the same fields, as before the Save.
C14_SaveLoadRoundTrip ==
    [][/\ (pc' = "saved") => (Books' = Books /\ Readers' = Readers /\ Loans' = Loans)
       /\ (pc = "saved" /\ pc' = "loaded") =>
              (Books' = Books /\ Readers' = Readers /\ Loans' = Loans)
      ]_vars

\* C14 witness: Load has just read back a manager that holds an available
\* and an unavailable book, a reader, an active and a returned loan.
C14_Witness ==
    /\ pc = "loaded"
    /\ \E i, j \in 1..Len(Books) : Books[i].IsAvailable /\ ~Books[j].IsAvailable
    /\ Readers # <<>>
    /\ \E i, j \in 1..Len(Loans) : IsActive(Loans[i]) /\ ~IsActive(Loans[j])
    /\ loansFile.state = "json" /\ Len(loansFile.doc) = Len(Loans)

RECURSIVE Decode(_)
\* The code points of a UTF-8 text of one- and two-byte characters.
Decode(bytes) ==
    IF bytes = <<>> THEN <<>>
    ELSE IF bytes[1] < 128 THEN <<bytes[1]>> \o Decode(Tail(bytes))
    ELSE <<(bytes[1] - 192) * 64 + (bytes[2] - 128)>> \o Decode(Tail(Tail(bytes)))

\* A letter with its case ignored: Latin A..Z and Cyrillic U+0410..U+042F
\* are taken to their lower-case letters.
FoldCase(cp) == IF cp \in 65..90 \/ cp \in 1040..1071 THEN cp + 32 ELSE cp

\* The text s contains the text q as a substring when case is ignored.
ContainsIgnoringCase(s, q) ==
    LET fs == [i \in 1..Len(Decode(Bytes(s))) |-> FoldCase(Decode(Bytes(s))[i])]
        fq == [i \in 1..Len(Decode(Bytes(q))) |-> FoldCase(Decode(Bytes(q))[i])]
    IN  \E p \in 1..(Len(fs) - Len(fq) + 1) : SubSeq(fs, p, p + Len(fq) - 1) = fq

\* C17: for every term, SearchBooks(term) returns, in the order of Books,
\* exactly the books whose Title or Author contains term as a substring when
\* case is ignored, and all books for the empty term.
C17_SearchBooks ==
    (last.op = "SearchBooks") =>
        \A q \in Terms :
            LET Matches(b) == \/ ContainsIgnoringCase(b.Title, q)
                              \/ ContainsIgnoringCase(b.Author, q)
            IN  /\ SearchBooks(Manager, q) = SelectSeq(Books, Matches)
                /\ (q = "") => (SearchBooks(Manager, q) = Books)

\* C15: in a run of the program, a step changes books.json, readers.json or
\* loans.json only if it is menu command 9 (Save & Exit); Load, the mutation
\* commands, the queries and "exit without save" leave the three documents as
\* they are, so that after "exit without save" they are as the session found
\* them.
C15_FilesChangeOnlyOnSave ==
    [][/\ (last'.op # "Save") =>
              /\ booksFile' = booksFile /\ readersFile' = readersFile /\ loansFile' = loansFile
       /\ (last'.op = "Save") =>
              /\ pc = "menu" /\ pc' = "done"
              /\ booksFile' = Save(Manager).books
              /\ readersFile' = Save(Manager).readers
              /\ loansFile' = Save(Manager).loans
      ]_vars

\* C15 witness: a session that found saved files and issued or returned a
\* loan has ended with "exit without save"; the files are the saved ones.
C15_Witness ==
    /\ pc = "done" /\ last.op = "Exit"
    /\ clock > 1
    /\ booksFile = SavedSession.books
    /\ readersFile = SavedSession.readers
    /\ loansFile = SavedSession.loans

\* The positions of the active loans of this ISBN held by this reader.
ActiveLoansBy(loans, isbn, rid) == {i \in ActiveLoansOf(loans, isbn) : loans[i].ReaderId = rid}

\* C16: ReturnBook(isbn, readerId) succeeds exactly when Loans holds an active
\* loan of that ISBN by that reader; on success exactly that loan gets the
\* current time as ReturnDate, the book of that ISBN becomes available, and
\* every other loan, every other book and every reader is as before.  ("999"
\* is an ISBN no book carries, 0 an Id no reader carries.)
C16_ReturnBook ==
    \A isbn \in ISBNs \cup {"999"}, rid \in ReaderIds \cup {0} :
        LET r == ReturnBook(Manager, isbn, rid, clock) IN
        /\ r.ok <=> (ActiveLoansBy(Loans, isbn, rid) # {})
        /\ r.ok => /\ \E k \in ActiveLoansBy(Loans, isbn, rid) :
                         r.mgr.Loans = [Loans EXCEPT ![k].ReturnDate = Some(clock)]
                   /\ r.mgr.Readers = Readers
                   /\ Len(r.mgr.Books) = Len(Books)
                   /\ \A i \in 1..Len(Books) :
                         r.mgr.Books[i] = IF Books[i].ISBN = isbn
                                          THEN [Books[i] EXCEPT !.IsAvailable = TRUE]
                                          ELSE Books[i]

\* C16 witness: ReturnBook has just closed a loan that is not the last of
\* Loans; its book is available, another book is still on loan to another
\* reader, for whom ReturnBook of the returned ISBN fails.
C16_Witness ==
    /\ last.op = "ReturnBook" /\ last.ok
    /\ HasAvailableBook(last.isbn)
    /\ \E k \in 1..(Len(Loans) - 1) :
          /\ Loans[k].BookISBN = last.isbn /\ Loans[k].ReaderId = last.id
          /\ Loans[k].ReturnDate = Some(clock - 1)
    /\ \E i \in 1..Len(Loans) :
          /\ IsActive(Loans[i]) /\ Loans[i].ReaderId # last.id
          /\ ~ReturnBook(Manager, last.isbn, Loans[i].ReaderId, clock).ok

\* C18: in every state reached by the six mutation operations from an empty
\* manager, every active loan names a book that is in Books and unavailable
\* and a reader that is in Readers.
C18_NoActiveLoanDangles ==
    \A i \in 1..Len(Loans) :
        IsActive(Loans[i]) => (OnLoan(Loans[i].BookISBN) /\ HasReader(Loans[i].ReaderId))

\* C18 witness: RemoveReader has just removed a reader who had borrowed; a
\* returned loan of that reader is left, and the active loan still in Loans
\* is of a reader and a book that are present.
C18_Witness ==
    /\ last.op = "RemoveReader" /\ last.ok
    /\ \E i \in 1..Len(Loans) : Loans[i].ReaderId = last.id /\ ~IsActive(Loans[i])
    /\ \E i \in 1..Len(Loans) :
          IsActive(Loans[i]) /\ OnLoan(Loans[i].BookISBN) /\ HasReader(Loans[i].ReaderId)

\* The returned loans, in their order in Loans.
Returned(loans) == LET Closed(l) == ~IsActive(l) IN SelectSeq(loans, Closed)

\* C19: no step of the six mutation operations removes a returned loan,
\* changes one of its fields or changes the order of the returned loans: the
\* returned loans after the step are those before it, in the same order,
\* with at most one more among them, and that only by a successful ReturnBook.
C19_ReturnedHistoryKept ==
    [][\/ Returned(Loans') = Returned(Loans)
       \/ /\ last'.op = "ReturnBook" /\ last'.ok
          /\ \E k \in 1..Len(Returned(Loans')) :
                /\ Erase(Returned(Loans'), k) = Returned(Loans)
                /\ Returned(Loans')[k].BookISBN = last'.isbn
                /\ Returned(Loans')[k].ReaderId = last'.id
      ]_vars

\* C19 witness: two returned loans are in Loans after a removal, one of them
\* of a book that is no longer in Books and a reader no longer in Readers.
C19_Witness ==
    /\ last.op \in {"RemoveBook", "RemoveReader"} /\ last.ok
    /\ Len(Returned(Loans)) >= 2
    /\ \E i \in 1..Len(Loans) :
          /\ ~IsActive(Loans[i])
          /\ FindBook(Books, Loans[i].BookISBN) = 0
          /\ ~HasReader(Loans[i].ReaderId)

\* A book with this ISBN is in Books, unavailable, and has no active loan.
Stuck(isbn) == OnLoan(isbn) /\ ActiveLoansOf(Loans, isbn) = {}

\* C20: a book that is unavailable without an active loan stays so: in such a
\* state IssueLoan, ReturnBook and RemoveBook on its ISBN fail for every
\* reader, and every step of the six mutation operations leaves the book in
\* Books, unavailable and without an active loan.
C20_StuckBookStays ==
    [][\A isbn \in ISBNs :
          Stuck(isbn) =>
              /\ Stuck(isbn)'
              /\ ~RemoveBook(Manager, isbn).ok
              /\ \A rid \in ReaderIds \cup {0} :
                    /\ ~IssueLoan(Manager, isbn, rid, clock).ok
                    /\ ~ReturnBook(Manager, isbn, rid, clock).ok
      ]_vars

\* C20 witness: IssueLoan has just failed although every reader a caller
\* names is present: every ISBN a caller names is of a stuck book, left by
\* RemoveReader on its borrower.
C20_Witness ==
    /\ last.op = "IssueLoan" /\ ~last.ok
    /\ \A rid \in ReaderIds : HasReader(rid)
    /\ \A isbn \in ISBNs : Stuck(isbn) /\ LoansOf(Loans, isbn) = {}

====
